---- MODULE Spec2Model ----
(***************************************************************************)
(* Lutron RadioRA 2 integration: the setup pass of __init__.py (topology   *)
(* classification and unique-id migration), the light and event platform   *)
(* set-up, and the event entity's subscription life cycle.                 *)
(***************************************************************************)
EXTENDS Integers, Sequences, FiniteSets, TLC

VARIABLES
    areas,            \* lutron_client.areas: the loaded topology
    sysvars,          \* lutron_client.variables
    entity_registry,  \* er.async_get(hass): set of entity entries
    device_registry,  \* dr.async_get(hass): set of device entries
    entry_data,       \* LutronData: the category buckets
    pc,               \* position of async_setup_entry in its loops
    calls,            \* the migration calls made so far, in order
    pre_entity,       \* entity registry before the pass (before the call)
    pre_device,       \* device registry before the pass (before the call)
    error,            \* an exception has propagated out of the handler
    created,          \* entities instantiated by each platform
    lookups,          \* registry lookups made by the platforms
    subscribers,      \* Button._subscribers of every button
    added,            \* event entities currently added to hass
    cycles,           \* number of attach calls per event entity
    fired,            \* events fired on the bus by handle_event
    lutron_light,     \* a LutronLight entity and the output behind it
    conv              \* a brightness level on its way through the conversions

vars == <<areas, sysvars, entity_registry, device_registry, entry_data, pc,
          calls, pre_entity, pre_device, error, created, lookups,
          subscribers, added, cycles, fired,
                   lutron_light, conv>>

(* Constants of the program *)

\* const.DOMAIN (DOMAIN is a reserved word)
LUTRON_DOMAIN == "lutron"

PLATFORMS == {"binary_sensor", "cover", "event", "fan", "light", "scene",
              "sensor", "switch"}

\* None where a string is expected, and None where an object is expected
None == "None"
NoObject == [none |-> TRUE]

\* No light entity and no conversion under way
NoLight == NoObject
NoConversion == NoObject

\* f"{controller_guid}_{uuid}"
UniqueId(controller_guid, id) == controller_guid \o "_" \o id

(* The host's entity registry: entries are looked up by                    *)
(* (domain, platform, unique_id) and updated by entity_id.                 *)

async_get_entity_id(registry, domain, platform, unique_id) ==
    LET hit == {e \in registry : /\ e.domain = domain
                                 /\ e.platform = platform
                                 /\ e.unique_id = unique_id}
    IN  IF hit = {} THEN None ELSE (CHOOSE e \in hit : TRUE).entity_id

async_get(registry, entity_id) ==
    CHOOSE e \in registry : e.entity_id = entity_id

\* Result of a registry update: the new registry, or the exception raised.
async_update_entity(registry, entity_id, new_unique_id) ==
    LET old == async_get(registry, entity_id)
        conflict == async_get_entity_id(registry, old.domain, old.platform,
                                        new_unique_id)
    IN  IF new_unique_id = old.unique_id
        THEN [registry |-> registry, raised |-> FALSE]
        ELSE IF conflict # None
        THEN [registry |-> registry, raised |-> TRUE]
        ELSE [registry |-> (registry \ {old}) \cup
                           {[old EXCEPT !.unique_id = new_unique_id]},
              raised |-> FALSE]

async_remove(registry, entity_id) ==
    {e \in registry : e.entity_id # entity_id}

(* The host's device registry: entries are looked up by identifier. *)

async_get_device(registry, identifiers) ==
    LET hit == {d \in registry : d.identifiers \cap identifiers # {}}
    IN  IF hit = {} THEN None ELSE (CHOOSE d \in hit : TRUE).id

async_update_device(registry, id, new_identifiers) ==
    {IF d.id = id THEN [d EXCEPT !.identifiers = new_identifiers] ELSE d
        : d \in registry}

(* Identifier migration *)

\* Variant: the entry is registered again under the new key and the entry
\* under the legacy key is kept
check_entity_unique_id_keeping_old(registry, platform, uuid, legacy_uuid, controller_guid) ==
    IF uuid = ""
    THEN [registry |-> registry, raised |-> FALSE]
    ELSE LET unique_id == UniqueId(controller_guid, legacy_uuid)
             new_unique_id == UniqueId(controller_guid, uuid)
             entity_id == async_get_entity_id(registry, platform,
                                              LUTRON_DOMAIN, unique_id)
         IN  IF entity_id = None
             THEN [registry |-> registry, raised |-> FALSE]
             ELSE IF async_get_entity_id(registry, platform, LUTRON_DOMAIN,
                                         new_unique_id) # None
             THEN [registry |-> registry, raised |-> TRUE]
             ELSE [registry |-> registry \cup
                        {[async_get(registry, entity_id) EXCEPT
                            !.unique_id = new_unique_id,
                            !.entity_id = platform \o "." \o new_unique_id]},
                   raised |-> FALSE]

\* Variant: the check "if not uuid: return" is missing
check_entity_unique_id_unguarded(registry, platform, uuid, legacy_uuid, controller_guid) ==
    LET unique_id == UniqueId(controller_guid, legacy_uuid)
        entity_id == async_get_entity_id(registry, platform, LUTRON_DOMAIN,
                                         unique_id)
    IN  IF entity_id # None
        THEN async_update_entity(registry, entity_id,
                                 UniqueId(controller_guid, uuid))
        ELSE [registry |-> registry, raised |-> FALSE]

async_check_entity_unique_id(registry, platform, uuid, legacy_uuid, controller_guid) ==
    IF uuid = ""
    THEN [registry |-> registry, raised |-> FALSE]
    ELSE LET unique_id == UniqueId(controller_guid, legacy_uuid)
             entity_id == async_get_entity_id(registry, platform, LUTRON_DOMAIN,
                                              unique_id)
         IN  IF entity_id # None
             THEN async_update_entity(registry, entity_id,
                                      UniqueId(controller_guid, uuid))
             ELSE [registry |-> registry, raised |-> FALSE]

async_check_device_identifiers(registry, uuid, legacy_uuid, controller_guid) ==
    IF uuid = ""
    THEN registry
    ELSE LET unique_id == UniqueId(controller_guid, legacy_uuid)
             device == async_get_device(registry, {<<LUTRON_DOMAIN, unique_id>>})
         IN  IF device # None
             THEN async_update_device(registry, device,
                     {<<LUTRON_DOMAIN, UniqueId(controller_guid, uuid)>>})
             ELSE registry


(* The setup pass: async_setup_entry of __init__.py *)

\* entry_data.client.guid
Guid == "G"

\* LutronData(...) with every bucket empty
LutronData ==
    [binary_sensors |-> <<>>, buttons |-> <<>>, covers |-> <<>>,
     fans |-> <<>>, lights |-> <<>>, leds |-> <<>>, scenes |-> <<>>,
     switches |-> <<>>, variables |-> <<>>]

\* The button types that make a named button a scene
SceneButtonTypes ==
    {"SingleAction", "Toggle", "SingleSceneRaiseLower", "MasterRaiseLower",
     "DualAction", "AdvancedToggle", "AdvancedConditional",
     "SimpleConditional"}

\* Python truthiness of a string or None
Truthy(s) == s # None /\ s # ""

RECURSIVE Concat(_)
Concat(ss) == IF ss = <<>> THEN <<>> ELSE Head(ss) \o Concat(Tail(ss))

\* The iterations of the loops of the pass, in the order the code runs them:
\* per area its outputs, the buttons of its keypads and its occupancy
\* group; then the variables.
AreaWork(a) ==
    [i \in 1..Len(areas[a].outputs) |-> [kind |-> "output", a |-> a, k |-> 0, i |-> i]]
    \o Concat([k \in 1..Len(areas[a].keypads) |->
                [i \in 1..Len(areas[a].keypads[k].buttons) |->
                    [kind |-> "button", a |-> a, k |-> k, i |-> i]]])
    \o <<[kind |-> "occupancy", a |-> a, k |-> 0, i |-> 0]>>

Work ==
    Concat([a \in 1..Len(areas) |-> AreaWork(a)])
    \o [i \in 1..Len(sysvars) |-> [kind |-> "variable", a |-> 0, k |-> 0, i |-> i]]

Item == Work[pc.at]

EntityCall(platform, uuid, legacy_uuid) ==
    [fn |-> "entity", platform |-> platform, uuid |-> uuid,
     legacy_uuid |-> legacy_uuid]

DeviceCall(uuid, legacy_uuid) ==
    [fn |-> "device", platform |-> None, uuid |-> uuid,
     legacy_uuid |-> legacy_uuid]

\* The exception of a registry update leaves the handler
Raise ==
    /\ pc' = [phase |-> "failed", at |-> pc.at, todo |-> {}]
    /\ error' = TRUE

Advance ==
    /\ pc' = [pc EXCEPT !.at = pc.at + 1]
    /\ error' = error

\* The platform an output is migrated under
OutputPlatform(output) ==
    IF output.type \in {"SYSTEM_SHADE", "MOTOR"} THEN "cover"
    ELSE IF output.type = "CEILING_FAN_TYPE" THEN "fan"
    ELSE IF output.is_light THEN "light"
    ELSE "switch"

\* Variant: a ceiling fan is sorted into the fan bucket only
SortOutput_fan_only(data, area_name, output) ==
    LET entry == [area_name |-> area_name, device |-> output]
    IN  IF output.type \in {"SYSTEM_SHADE", "MOTOR"}
        THEN [data EXCEPT !.covers = Append(@, entry)]
        ELSE IF output.type = "CEILING_FAN_TYPE"
        THEN [data EXCEPT !.fans = Append(@, entry)]
        ELSE IF output.is_light
        THEN [data EXCEPT !.lights = Append(@, entry)]
        ELSE [data EXCEPT !.switches = Append(@, entry)]

\* Variant: the is_light flag is tested before the type
SortOutput_light_first(data, area_name, output) ==
    LET entry == [area_name |-> area_name, device |-> output]
    IN  IF output.is_light /\ output.type # "CEILING_FAN_TYPE"
        THEN [data EXCEPT !.lights = Append(@, entry)]
        ELSE IF output.type \in {"SYSTEM_SHADE", "MOTOR"}
        THEN [data EXCEPT !.covers = Append(@, entry)]
        ELSE IF output.type = "CEILING_FAN_TYPE"
        THEN [data EXCEPT !.fans = Append(@, entry),
                          !.lights = Append(@, entry)]
        ELSE [data EXCEPT !.switches = Append(@, entry)]

\* Variant: only the known switch type is sorted into the switch bucket
SortOutput_known_only(data, area_name, output) ==
    LET entry == [area_name |-> area_name, device |-> output]
    IN  IF output.type \in {"SYSTEM_SHADE", "MOTOR"}
        THEN [data EXCEPT !.covers = Append(@, entry)]
        ELSE IF output.type = "CEILING_FAN_TYPE"
        THEN [data EXCEPT !.fans = Append(@, entry),
                          !.lights = Append(@, entry)]
        ELSE IF output.is_light
        THEN [data EXCEPT !.lights = Append(@, entry)]
        ELSE IF output.type = "INC"
        THEN [data EXCEPT !.switches = Append(@, entry)]
        ELSE data

\* The buckets after the output has been sorted into them
SortOutput(data, area_name, output) ==
    LET entry == [area_name |-> area_name, device |-> output]
    IN  IF output.type \in {"SYSTEM_SHADE", "MOTOR"}
        THEN [data EXCEPT !.covers = Append(@, entry)]
        ELSE IF output.type = "CEILING_FAN_TYPE"
        THEN [data EXCEPT !.fans = Append(@, entry),
                          !.lights = Append(@, entry)]
        ELSE IF output.is_light
        THEN [data EXCEPT !.lights = Append(@, entry)]
        ELSE [data EXCEPT !.switches = Append(@, entry)]

\* One iteration of "for output in area.outputs"
ClassifyOutput ==
    /\ pc.phase = "classify" /\ pc.at <= Len(Work) /\ Item.kind = "output"
    /\ LET area == areas[Item.a]
           output == area.outputs[Item.i]
           platform == OutputPlatform(output)
           r == async_check_entity_unique_id(entity_registry, platform,
                    output.uuid, output.legacy_uuid, Guid)
       IN  /\ entry_data' = SortOutput(entry_data, area.name, output)
           /\ entity_registry' = r.registry
           /\ IF r.raised
              THEN /\ Raise
                   /\ calls' = Append(calls,
                        EntityCall(platform, output.uuid, output.legacy_uuid))
                   /\ device_registry' = device_registry
              ELSE /\ Advance
                   /\ calls' = calls \o
                        <<EntityCall(platform, output.uuid, output.legacy_uuid),
                          DeviceCall(output.uuid, output.legacy_uuid)>>
                   /\ device_registry' = async_check_device_identifiers(
                        device_registry, output.uuid, output.legacy_uuid, Guid)
    /\ UNCHANGED <<areas, sysvars, pre_entity, pre_device, created, lookups,
                   subscribers, added, cycles, fired,
                   lutron_light, conv>>


\* next((led for led in keypad.leds if led.number == button.number), None)
FirstLed(leds, number) ==
    LET hits == {j \in 1..Len(leds) : leds[j].number = number}
    IN  IF hits = {} THEN NoObject
        ELSE leds[CHOOSE j \in hits : \A h \in hits : j <= h]

\* Variant: the name is not tested
IsScene_any_name(button) ==
    button.button_type \in SceneButtonTypes

\* The condition under which a button is added as a scene
IsScene(button) ==
    /\ button.name # "Unknown Button"
    /\ button.button_type \in SceneButtonTypes

\* Variant: the LED is added whatever the LED logic of the button
SortScene_any_logic(data, area_name, keypad, button) ==
    LET led == FirstLed(keypad.leds, button.number)
        withScene == [data EXCEPT !.scenes = Append(@,
                        [area_name |-> area_name, keypad |-> keypad.name,
                         button |-> button, led |-> led])]
    IN  IF led # NoObject
        THEN [withScene EXCEPT !.leds = Append(@,
                [area_name |-> area_name, keypad |-> keypad.name,
                 led |-> led])]
        ELSE withScene

\* The buckets after the scene part of the loop body
SortScene(data, area_name, keypad, button) ==
    LET led == FirstLed(keypad.leds, button.number)
        withScene == [data EXCEPT !.scenes = Append(@,
                        [area_name |-> area_name, keypad |-> keypad.name,
                         button |-> button, led |-> led])]
    IN  IF led # NoObject /\ button.led_logic = 5
        THEN [withScene EXCEPT !.leds = Append(@,
                [area_name |-> area_name, keypad |-> keypad.name,
                 led |-> led])]
        ELSE withScene

\* Variant: a button is a raw button only when it is not a scene
SortButton_unless_scene(data, area_name, keypad, button) ==
    IF Truthy(button.button_type) /\ ~IsScene(button)
    THEN [data EXCEPT !.buttons = Append(@,
            [area_name |-> area_name, keypad |-> keypad.name,
             button |-> button])]
    ELSE data

\* if button.button_type: entry_data.buttons.append(...)
SortButton(data, area_name, keypad, button) ==
    IF Truthy(button.button_type)
    THEN [data EXCEPT !.buttons = Append(@,
            [area_name |-> area_name, keypad |-> keypad.name,
             button |-> button])]
    ELSE data

\* One iteration of "for button in keypad.buttons"
ClassifyButton ==
    /\ pc.phase = "classify" /\ pc.at <= Len(Work) /\ Item.kind = "button"
    /\ LET area == areas[Item.a]
           keypad == area.keypads[Item.k]
           button == keypad.buttons[Item.i]
           led == FirstLed(keypad.leds, button.number)
           scened == SortScene(entry_data, area.name, keypad, button)
           r1 == async_check_entity_unique_id(entity_registry, "scene",
                    button.uuid, button.legacy_uuid, Guid)
           c1 == EntityCall("scene", button.uuid, button.legacy_uuid)
       IN  IF ~IsScene(button)
           THEN /\ entry_data' = SortButton(entry_data, area.name, keypad, button)
                /\ Advance
                /\ UNCHANGED <<entity_registry, calls>>
           ELSE IF r1.raised
           THEN /\ entry_data' = scened
                /\ entity_registry' = r1.registry
                /\ calls' = Append(calls, c1)
                /\ Raise
           ELSE IF led = NoObject
           THEN /\ entry_data' = SortButton(scened, area.name, keypad, button)
                /\ entity_registry' = r1.registry
                /\ calls' = Append(calls, c1)
                /\ Advance
           ELSE LET r2 == async_check_entity_unique_id(r1.registry, "switch",
                            led.uuid, led.legacy_uuid, Guid)
                    c2 == EntityCall("switch", led.uuid, led.legacy_uuid)
                IN  /\ entity_registry' = r2.registry
                    /\ calls' = calls \o <<c1, c2>>
                    /\ IF r2.raised
                       THEN /\ entry_data' = scened
                            /\ Raise
                       ELSE /\ entry_data' = SortButton(scened, area.name,
                                                        keypad, button)
                            /\ Advance
    /\ UNCHANGED <<areas, sysvars, device_registry, pre_entity, pre_device,
                   created, lookups, subscribers, added, cycles, fired,
                   lutron_light, conv>>

\* Variant: the id of the group is not tested
HasOccupancy_any_id(area) ==
    area.occupancy_group # NoObject

\* if area.occupancy_group is not None and area.occupancy_group.id != 0
HasOccupancy(area) ==
    /\ area.occupancy_group # NoObject
    /\ area.occupancy_group.id # 0

\* The occupancy group of one area, after its outputs and keypads
ClassifyOccupancy ==
    /\ pc.phase = "classify" /\ pc.at <= Len(Work) /\ Item.kind = "occupancy"
    /\ LET area == areas[Item.a]
           group == area.occupancy_group
       IN  IF ~HasOccupancy(area)
           THEN /\ Advance
                /\ UNCHANGED <<entry_data, entity_registry, device_registry,
                               calls>>
           ELSE LET r == async_check_entity_unique_id(entity_registry,
                            "binary_sensor", group.uuid, group.legacy_uuid,
                            Guid)
                IN  /\ entry_data' = [entry_data EXCEPT !.binary_sensors =
                            Append(@, [area_name |-> area.name,
                                       device |-> group])]
                    /\ entity_registry' = r.registry
                    /\ IF r.raised
                       THEN /\ Raise
                            /\ calls' = Append(calls, EntityCall(
                                 "binary_sensor", group.uuid, group.legacy_uuid))
                            /\ device_registry' = device_registry
                       ELSE /\ Advance
                            /\ calls' = calls \o
                                 <<EntityCall("binary_sensor", group.uuid,
                                              group.legacy_uuid),
                                   DeviceCall(group.uuid, group.legacy_uuid)>>
                            /\ device_registry' =
                                 async_check_device_identifiers(
                                     device_registry, group.uuid,
                                     group.legacy_uuid, Guid)
    /\ UNCHANGED <<areas, sysvars, pre_entity, pre_device, created, lookups,
                   subscribers, added, cycles, fired,
                   lutron_light, conv>>

\* One iteration of "for variable in lutron_client.variables"
ClassifyVariable ==
    /\ pc.phase = "classify" /\ pc.at <= Len(Work) /\ Item.kind = "variable"
    /\ LET variable == sysvars[Item.i]
           r == async_check_entity_unique_id(entity_registry, "sensor", "",
                    variable.legacy_uuid, Guid)
       IN  /\ entry_data' = [entry_data EXCEPT !.variables =
                    Append(@, [name |-> variable.name, device |-> variable])]
           /\ entity_registry' = r.registry
           /\ device_registry' = async_check_device_identifiers(
                    device_registry, "", variable.legacy_uuid, Guid)
           /\ calls' = calls \o <<EntityCall("sensor", "", variable.legacy_uuid),
                                  DeviceCall("", variable.legacy_uuid)>>
           /\ Advance
    /\ UNCHANGED <<areas, sysvars, pre_entity, pre_device, created, lookups,
                   subscribers, added, cycles, fired,
                   lutron_light, conv>>

\* device_registry.async_get_or_create(identifiers={(DOMAIN, guid)}, ...)
async_get_or_create(registry, identifiers, name) ==
    IF async_get_device(registry, identifiers) # None
    THEN registry
    ELSE registry \cup {[id |-> "d_main", identifiers |-> identifiers,
                         name |-> name]}

\* The platforms of PLATFORMS whose set-up is modelled
SetupPlatforms == {"event", "light", "sensor"}

\* Variant: the platforms are set up before the variables are checked
ForwardEntrySetups_before_variables ==
    /\ pc.phase = "classify"
    /\ pc.at = Len(Work) + 1 \/ (pc.at <= Len(Work) /\ Item.kind = "variable")
    /\ device_registry' = async_get_or_create(device_registry,
            {<<LUTRON_DOMAIN, Guid>>}, "Main repeater")
    /\ pc' = [phase |-> "platforms", at |-> pc.at, todo |-> SetupPlatforms]
    /\ UNCHANGED <<areas, sysvars, entity_registry, entry_data, calls,
                   pre_entity, pre_device, error, created, lookups,
                   subscribers, added, cycles, fired,
                   lutron_light, conv>>

\* The end of the pass: the main repeater device, then the platforms
ForwardEntrySetups ==
    /\ pc.phase = "classify" /\ pc.at = Len(Work) + 1
    /\ device_registry' = async_get_or_create(device_registry,
            {<<LUTRON_DOMAIN, Guid>>}, "Main repeater")
    /\ pc' = [phase |-> "platforms", at |-> pc.at, todo |-> SetupPlatforms]
    /\ UNCHANGED <<areas, sysvars, entity_registry, entry_data, calls,
                   pre_entity, pre_device, error, created, lookups,
                   subscribers, added, cycles, fired,
                   lutron_light, conv>>


(* Platform set-up: light.py, event.py, sensor.py *)

\* No platform has been set up
NoEntities == [event |-> <<>>, light |-> <<>>, sensor |-> <<>>]

Entity(platform, class, device) ==
    [platform |-> platform, class |-> class, device |-> device,
     ncalls |-> Len(calls)]

\* Variant: a fan without registry entry gets a light entity as well
RECURSIVE LightsLoop_new_fan(_)
LightsLoop_new_fan(n) ==
    IF n = 0
    THEN [registry |-> entity_registry, lights |-> <<>>, lookups |-> <<>>]
    ELSE LET before == LightsLoop_new_fan(n - 1)
             device == entry_data.lights[n].device
             unique_id == UniqueId(Guid, device.uuid)
             entity_id == async_get_entity_id(before.registry, "light",
                                              LUTRON_DOMAIN, unique_id)
             looked == Append(before.lookups,
                          [domain |-> "light", unique_id |-> unique_id,
                           result |-> entity_id, ncalls |-> Len(calls)])
             light == Entity("light", "LutronLight", device)
         IN  IF device.type = "CEILING_FAN_TYPE"
             THEN IF entity_id # None
                     /\ async_get(before.registry, entity_id).disabled
                  THEN [registry |-> async_remove(before.registry, entity_id),
                        lights |-> before.lights,
                        lookups |-> looked]
                  ELSE [registry |-> before.registry,
                        lights |-> Append(before.lights, light),
                        lookups |-> looked]
             ELSE [before EXCEPT !.lights = Append(@, light)]

\* The loop "for area_name, device_name, device in entry_data.lights":
\* the registry, the lights list and the lookups after the first n entries
RECURSIVE LightsLoop(_)
LightsLoop(n) ==
    IF n = 0
    THEN [registry |-> entity_registry, lights |-> <<>>, lookups |-> <<>>]
    ELSE LET before == LightsLoop(n - 1)
             device == entry_data.lights[n].device
             unique_id == UniqueId(Guid, device.uuid)
             entity_id == async_get_entity_id(before.registry, "light",
                                              LUTRON_DOMAIN, unique_id)
             looked == Append(before.lookups,
                          [domain |-> "light", unique_id |-> unique_id,
                           result |-> entity_id, ncalls |-> Len(calls)])
             light == Entity("light", "LutronLight", device)
         IN  IF device.type = "CEILING_FAN_TYPE"
             THEN IF entity_id # None
                  THEN IF async_get(before.registry, entity_id).disabled
                       THEN [registry |-> async_remove(before.registry,
                                                       entity_id),
                             lights |-> before.lights,
                             lookups |-> looked]
                       ELSE [registry |-> before.registry,
                             lights |-> Append(before.lights, light),
                             lookups |-> looked]
                  ELSE [before EXCEPT !.lookups = looked]
             ELSE [before EXCEPT !.lights = Append(@, light)]

\* light.async_setup_entry
LightSetupEntry ==
    /\ pc.phase = "platforms" /\ "light" \in pc.todo
    /\ LET done == LightsLoop(Len(entry_data.lights))
           leds == [j \in 1..Len(entry_data.leds) |->
                        Entity("light", "LutronLedLight",
                               entry_data.leds[j].led)]
       IN  /\ entity_registry' = done.registry
           /\ created' = [created EXCEPT !.light = done.lights \o leds]
           /\ lookups' = lookups \o done.lookups
    /\ pc' = [pc EXCEPT !.todo = @ \ {"light"}]
    /\ UNCHANGED <<areas, sysvars, device_registry, entry_data, calls,
                   pre_entity, pre_device, error, subscribers, added, cycles,
                   fired,
                   lutron_light, conv>>

\* event.async_setup_entry
EventSetupEntry ==
    /\ pc.phase = "platforms" /\ "event" \in pc.todo
    /\ created' = [created EXCEPT !.event =
            [j \in 1..Len(entry_data.buttons) |->
                Entity("event", "LutronEventEntity",
                       entry_data.buttons[j].button)]]
    /\ pc' = [pc EXCEPT !.todo = @ \ {"event"}]
    /\ UNCHANGED <<areas, sysvars, entity_registry, device_registry,
                   entry_data, calls, pre_entity, pre_device, error, lookups,
                   subscribers, added, cycles, fired,
                   lutron_light, conv>>

\* sensor.async_setup_entry
SensorSetupEntry ==
    /\ pc.phase = "platforms" /\ "sensor" \in pc.todo
    /\ created' = [created EXCEPT !.sensor =
            [j \in 1..Len(entry_data.variables) |->
                Entity("sensor", "LutronVariable",
                       entry_data.variables[j].device)]]
    /\ pc' = [pc EXCEPT !.todo = @ \ {"sensor"}]
    /\ UNCHANGED <<areas, sysvars, entity_registry, device_registry,
                   entry_data, calls, pre_entity, pre_device, error, lookups,
                   subscribers, added, cycles, fired,
                   lutron_light, conv>>

Next ==
    \/ ClassifyOutput
    \/ ClassifyButton
    \/ ClassifyOccupancy
    \/ ClassifyVariable
    \/ ForwardEntrySetups
    \/ LightSetupEntry
    \/ EventSetupEntry
    \/ SensorSetupEntry


(* The inputs of the pass: topologies and registries *)

MaxOutputs == 2    \* outputs of the area, where the outputs vary
MaxButtons == 1    \* buttons of the first keypad, where the buttons vary
MaxRecords == 2    \* registry entries present before the pass

\* Every vendor object has a legacy_uuid; its uuid is empty until the
\* library provides one.
LegacyOf(kind, k) == kind \o "-" \o ToString(k)
\* The uuid the library provides for the object with this legacy_uuid
PotentialUuid(legacy_uuid) == "uuid-" \o legacy_uuid
UuidOf(kind, k) == PotentialUuid(LegacyOf(kind, k))
UuidChoice(kind, k, withUuid) == IF withUuid THEN UuidOf(kind, k) ELSE ""

OutputTypes == {"SYSTEM_SHADE", "MOTOR", "CEILING_FAN_TYPE", "INC", "BOGUS"}

ButtonTypes == SceneButtonTypes \cup {"RaiseLower", "", None}

LedNumbers == {1, 2}

Outputs(k, uuids) ==
    [type : OutputTypes, is_light : BOOLEAN,
     uuid : {UuidChoice("out", k, u) : u \in uuids},
     legacy_uuid : {LegacyOf("out", k)}]

Buttons(k, names, types, logics, uuids) ==
    [name : names, button_type : types, number : {k}, led_logic : logics,
     uuid : {UuidChoice("btn", k, u) : u \in uuids},
     legacy_uuid : {LegacyOf("btn", k)}]

Led(keypad, number, withUuid) ==
    [number |-> number,
     uuid |-> UuidChoice("led" \o ToString(keypad), number, withUuid),
     legacy_uuid |-> LegacyOf("led" \o ToString(keypad), number)]

\* The LEDs of a keypad with the given slot numbers, in slot order
RECURSIVE Leds(_, _, _)
Leds(keypad, numbers, withUuid) ==
    IF numbers = {} THEN <<>>
    ELSE LET n == CHOOSE m \in numbers : \A h \in numbers : m <= h
         IN  <<Led(keypad, n, withUuid)>> \o Leds(keypad, numbers \ {n}, withUuid)

\* The sequences of 0..n outputs, the k-th being the k-th output of the area
RECURSIVE OutputSeqs(_)
OutputSeqs(n) ==
    IF n = 0 THEN {<<>>}
    ELSE LET shorter == OutputSeqs(n - 1)
         IN  shorter \cup {Append(s, x) : s \in {t \in shorter : Len(t) = n - 1},
                                          x \in Outputs(n, BOOLEAN)}

\* The subsets of C with at most n elements
RECURSIVE SubsetsUpTo(_, _)
SubsetsUpTo(C, n) ==
    IF n = 0 THEN {{}}
    ELSE LET smaller == SubsetsUpTo(C, n - 1)
         IN  smaller \cup {S \cup {c} : S \in smaller, c \in C}

OccupancyGroup(id, withUuid) ==
    [id |-> id, uuid |-> UuidChoice("occ", 1, withUuid),
     legacy_uuid |-> LegacyOf("occ", 1)]

Sysvar(k) == [name |-> "var" \o ToString(k), legacy_uuid |-> LegacyOf("var", k)]

\* A keypad that does not vary: one scene button in slot 2 and an LED in
\* slot 1 only
SecondKeypad(withUuid) ==
    [name |-> "K2",
     buttons |-> <<[name |-> "Evening", button_type |-> "Toggle", number |-> 2,
                    led_logic |-> 5, uuid |-> UuidChoice("btnK2", 2, withUuid),
                    legacy_uuid |-> LegacyOf("btnK2", 2)]>>,
     leds |-> Leds(2, {1}, withUuid)]

\* An entity entry as the platform of the entity created it
EntityEntry(domain, unique_id, disabled) ==
    [entity_id |-> domain \o "." \o unique_id, domain |-> domain,
     platform |-> LUTRON_DOMAIN, unique_id |-> unique_id,
     disabled |-> disabled]

DeviceEntry(unique_id) ==
    [id |-> "d_" \o unique_id,
     identifiers |-> {<<LUTRON_DOMAIN, unique_id>>},
     name |-> "Device " \o unique_id]


\* The vendor objects of a topology
AllOutputs(ar) ==
    UNION {{ar[a].outputs[i] : i \in 1..Len(ar[a].outputs)} : a \in 1..Len(ar)}
AllKeypads(ar) ==
    UNION {{ar[a].keypads[k] : k \in 1..Len(ar[a].keypads)} : a \in 1..Len(ar)}
AllButtons(ar) ==
    UNION {{kp.buttons[i] : i \in 1..Len(kp.buttons)} : kp \in AllKeypads(ar)}
AllLeds(ar) ==
    UNION {{kp.leds[i] : i \in 1..Len(kp.leds)} : kp \in AllKeypads(ar)}
AllOccupancyGroups(ar) ==
    {ar[a].occupancy_group : a \in 1..Len(ar)} \ {NoObject}

\* The keys an object may be registered under
KeysOf(object) ==
    {UniqueId(Guid, object.legacy_uuid),
     UniqueId(Guid, PotentialUuid(object.legacy_uuid))}

\* The entity entries earlier set-ups may have left for a topology: an
\* output in the domains its entities are created in, a button as scene and
\* as event, an LED as switch and as light, an occupancy group as binary
\* sensor, a variable as sensor.
OutputDomains(output) ==
    {OutputPlatform(output)} \cup
    (IF output.type = "CEILING_FAN_TYPE" THEN {"light"} ELSE {})

ButtonDomains(button) ==
    (IF IsScene(button) THEN {"scene"} ELSE {}) \cup
    (IF Truthy(button.button_type) THEN {"event"} ELSE {})

EntityCandidates(ar, sv) ==
    UNION {{EntityEntry(d, key, FALSE) : d \in OutputDomains(o), key \in KeysOf(o)}
            \cup {EntityEntry(d, key, TRUE) :
                    d \in OutputDomains(o) \cap {"light"}, key \in KeysOf(o)}
            : o \in AllOutputs(ar)}
    \cup UNION {{EntityEntry(d, key, FALSE) : d \in ButtonDomains(b),
                    key \in KeysOf(b)} : b \in AllButtons(ar)}
    \cup UNION {{EntityEntry(d, key, FALSE) : d \in {"switch", "light"},
                    key \in KeysOf(l)} : l \in AllLeds(ar)}
    \cup UNION {{EntityEntry("binary_sensor", key, FALSE) : key \in KeysOf(g)}
                 : g \in AllOccupancyGroups(ar)}
    \cup {EntityEntry("sensor", UniqueId(Guid, sv[i].legacy_uuid), FALSE)
            : i \in 1..Len(sv)}

DeviceCandidates(ar, sv) ==
    UNION {{DeviceEntry(key) : key \in KeysOf(o)}
            : o \in AllOutputs(ar) \cup AllOccupancyGroups(ar)}
    \cup {DeviceEntry(UniqueId(Guid, sv[i].legacy_uuid)) : i \in 1..Len(sv)}
    \cup {DeviceEntry(Guid)}

\* The registries hold one entry per (domain, platform, unique_id) and one
\* device per identifier; a vendor object has one device.
RegistryOk(er, dr, ar) ==
    /\ \A e1, e2 \in er :
          (e1.domain = e2.domain /\ e1.unique_id = e2.unique_id) => e1 = e2
    /\ \A o \in AllOutputs(ar) \cup AllOccupancyGroups(ar) :
          Cardinality({d \in dr : d.identifiers \cap
                {<<LUTRON_DOMAIN, key>> : key \in KeysOf(o)} # {}}) <= 1

\* The registries with at most n entries in all
Registries(ar, sv, n) ==
    {r \in SubsetsUpTo([kind : {"entity"}, entry : EntityCandidates(ar, sv)]
                       \cup [kind : {"device"}, entry : DeviceCandidates(ar, sv)], n)
        : RegistryOk({x.entry : x \in {y \in r : y.kind = "entity"}},
                     {x.entry : x \in {y \in r : y.kind = "device"}}, ar)}

\* The registries of an installation made before the library had uuids:
\* every object under its legacy key, in the domain it is sorted into
LegacyEntities(ar, sv) ==
    {e \in EntityCandidates(ar, sv) :
        /\ ~e.disabled
        /\ \E o \in AllOutputs(ar) \cup AllButtons(ar) \cup AllLeds(ar)
                    \cup AllOccupancyGroups(ar)
                    \cup {sv[i] : i \in 1..Len(sv)} :
              e.unique_id = UniqueId(Guid, o.legacy_uuid)}

LegacyDevices(ar, sv) ==
    {d \in DeviceCandidates(ar, sv) :
        \E o \in AllOutputs(ar) \cup AllOccupancyGroups(ar)
                 \cup {sv[i] : i \in 1..Len(sv)} :
            d.identifiers = {<<LUTRON_DOMAIN, UniqueId(Guid, o.legacy_uuid)>>}}

\* The state in which async_setup_entry starts its loops
Start(ar, sv, er, dr) ==
    /\ areas = ar
    /\ sysvars = sv
    /\ entity_registry = er
    /\ device_registry = dr
    /\ pre_entity = er
    /\ pre_device = dr
    /\ entry_data = LutronData
    /\ pc = [phase |-> "classify", at |-> 1, todo |-> {}]
    /\ calls = <<>>
    /\ error = FALSE
    /\ created = NoEntities
    /\ lookups = <<>>
    /\ subscribers = <<>>
    /\ added = {}
    /\ cycles = <<>>
    /\ fired = <<>>
    /\ lutron_light = NoLight
    /\ conv = NoConversion

\* A keypad with one scene button and its LED
FirstKeypad(withUuid) ==
    [name |-> "K1",
     buttons |-> <<[name |-> "Morning", button_type |-> "Toggle", number |-> 1,
                    led_logic |-> 5, uuid |-> UuidChoice("btn", 1, withUuid),
                    legacy_uuid |-> LegacyOf("btn", 1)]>>,
     leds |-> Leds(1, {1}, withUuid)]

\* Any output, a keypad, an occupancy group and a variable, with or without
\* uuids, and any registry of at most MaxRecords entries
Init ==
    \E withUuid \in BOOLEAN :
    \E output \in Outputs(1, {withUuid}) :
       LET ar == <<[name |-> "A1", outputs |-> <<output>>,
                    keypads |-> <<FirstKeypad(withUuid)>>,
                    occupancy_group |-> OccupancyGroup(1, withUuid)]>>
           sv == <<Sysvar(1)>>
       IN  \E r \in Registries(ar, sv, MaxRecords) :
              Start(ar, sv,
                    {x.entry : x \in {y \in r : y.kind = "entity"}},
                    {x.entry : x \in {y \in r : y.kind = "device"}})

Spec == Init /\ [][Next]_vars


\* Up to MaxOutputs outputs of any type in the first area, one shade in a
\* second area without keypads and without occupancy group; the registries
\* are empty or those of an installation made before the library had uuids
InitOutputs ==
    \E outputs \in OutputSeqs(MaxOutputs) \ {<<>>} :
       LET ar == <<[name |-> "A1", outputs |-> outputs,
                    keypads |-> <<FirstKeypad(TRUE)>>,
                    occupancy_group |-> OccupancyGroup(1, TRUE)],
                   [name |-> "A2",
                    outputs |-> <<[type |-> "SYSTEM_SHADE", is_light |-> FALSE,
                                   uuid |-> UuidOf("shade", 1),
                                   legacy_uuid |-> LegacyOf("shade", 1)]>>,
                    keypads |-> <<>>,
                    occupancy_group |-> NoObject]>>
           sv == <<Sysvar(1)>>
       IN  \/ Start(ar, sv, {}, {})
           \/ Start(ar, sv, LegacyEntities(ar, sv), LegacyDevices(ar, sv))

SpecOutputs == InitOutputs /\ [][Next]_vars

ButtonNames == {"Unknown Button", "Morning", ""}

\* The sequences of 0..n buttons, the k-th being in slot k of the keypad
RECURSIVE ButtonSeqs(_)
ButtonSeqs(n) ==
    IF n = 0 THEN {<<>>}
    ELSE LET shorter == ButtonSeqs(n - 1)
         IN  shorter \cup {Append(s, x) : s \in {t \in shorter : Len(t) = n - 1},
                    x \in Buttons(n, ButtonNames, ButtonTypes, {0, 5}, {TRUE})}

\* Up to MaxButtons buttons of any name, type and LED logic on the first
\* keypad, with LEDs in any of the slots; a second keypad beside it
InitKeypads ==
    \E buttons \in ButtonSeqs(MaxButtons) :
    \E slots \in SUBSET LedNumbers :
       LET ar == <<[name |-> "A1",
                    outputs |-> <<[type |-> "INC", is_light |-> TRUE,
                                   uuid |-> UuidOf("out", 1),
                                   legacy_uuid |-> LegacyOf("out", 1)]>>,
                    keypads |-> <<[name |-> "K1", buttons |-> buttons,
                                   leds |-> Leds(1, slots, TRUE)],
                                  SecondKeypad(TRUE)>>,
                    occupancy_group |-> OccupancyGroup(1, TRUE)]>>
           sv == <<Sysvar(1)>>
       IN  \/ Start(ar, sv, {}, {})
           \/ Start(ar, sv, LegacyEntities(ar, sv), LegacyDevices(ar, sv))

SpecKeypads == InitKeypads /\ [][Next]_vars


\* The occupancy group of the k-th area
AreaOccupancy(k, id, withUuid) ==
    [id |-> id, uuid |-> UuidChoice("occ", k, withUuid),
     legacy_uuid |-> LegacyOf("occ", k)]

\* What area.occupancy_group may be: None, a group that is not linked to an
\* area (id 0) or a group of the area
OccupancyIds == {0, 1}

OccupancyChoices(k) ==
    {NoObject} \cup {AreaOccupancy(k, id, u) : id \in OccupancyIds, u \in BOOLEAN}

\* Two areas, each with any occupancy group or none, the first with an
\* output and a keypad; any registry of at most MaxRecords entries
InitOccupancy ==
    \E g1 \in OccupancyChoices(1), g2 \in OccupancyChoices(2) :
       LET ar == <<[name |-> "A1",
                    outputs |-> <<[type |-> "INC", is_light |-> TRUE,
                                   uuid |-> UuidOf("out", 1),
                                   legacy_uuid |-> LegacyOf("out", 1)]>>,
                    keypads |-> <<FirstKeypad(TRUE)>>,
                    occupancy_group |-> g1],
                   [name |-> "A2", outputs |-> <<>>, keypads |-> <<>>,
                    occupancy_group |-> g2]>>
           sv == <<Sysvar(1)>>
       IN  \E r \in Registries(ar, sv, MaxRecords) :
              Start(ar, sv,
                    {x.entry : x \in {y \in r : y.kind = "entity"}},
                    {x.entry : x \in {y \in r : y.kind = "device"}})

SpecOccupancy == InitOccupancy /\ [][Next]_vars


(* The migration functions on their own: any registry, any arguments *)

\* Outside a setup pass nothing of the pass changes
NoPass ==
    /\ areas = <<>>
    /\ sysvars = <<>>
    /\ entry_data = LutronData
    /\ pc = [phase |-> "idle", at |-> 0, todo |-> {}]
    /\ lookups = <<>>

Guids == {"G", "H"}
MigratePlatforms == {"fan", "light"}
MigrateObjects == {LegacyOf("out", 1), LegacyOf("out", 2)}

MigrateKeys ==
    {UniqueId(g, id) : g \in Guids,
        id \in MigrateObjects \cup {PotentialUuid(l) : l \in MigrateObjects}}

\* No two entries under one key, one device per vendor object and controller
MigrateRegistryOk(er, dr) ==
    /\ \A e1, e2 \in er :
          (e1.domain = e2.domain /\ e1.unique_id = e2.unique_id) => e1 = e2
    /\ \A g \in Guids, l \in MigrateObjects :
          ~ (DeviceEntry(UniqueId(g, l)) \in dr
             /\ DeviceEntry(UniqueId(g, PotentialUuid(l))) \in dr)

InitMigrate ==
    /\ NoPass
    /\ \E r \in SubsetsUpTo(
                [kind : {"entity"},
                 entry : {EntityEntry(d, key, dis) : d \in MigratePlatforms,
                            key \in MigrateKeys, dis \in BOOLEAN}]
                \cup [kind : {"device"},
                      entry : {DeviceEntry(key) : key \in MigrateKeys}],
                MaxRecords) :
          /\ entity_registry = {x.entry : x \in {y \in r : y.kind = "entity"}}
          /\ device_registry = {x.entry : x \in {y \in r : y.kind = "device"}}
          /\ MigrateRegistryOk(entity_registry, device_registry)
    /\ pre_entity = entity_registry
    /\ pre_device = device_registry
    /\ calls = <<>>
    /\ error = FALSE
    /\ created = NoEntities
    /\ subscribers = <<>>
    /\ added = {}
    /\ cycles = <<>>
    /\ fired = <<>>
    /\ lutron_light = NoLight
    /\ conv = NoConversion

\* A call of async_check_entity_unique_id; calls holds the last call and
\* pre_entity, pre_device the registries it was made on
CheckEntityUniqueId(platform, uuid, legacy_uuid, controller_guid) ==
    LET r == async_check_entity_unique_id(entity_registry, platform, uuid,
                                           legacy_uuid, controller_guid)
    IN  /\ entity_registry' = r.registry
        /\ error' = r.raised
        /\ calls' = <<[fn |-> "entity", platform |-> platform, uuid |-> uuid,
                       legacy_uuid |-> legacy_uuid, guid |-> controller_guid]>>
        /\ pre_entity' = entity_registry
        /\ pre_device' = device_registry
        /\ UNCHANGED <<areas, sysvars, device_registry, entry_data, pc, created,
                       lookups, subscribers, added, cycles, fired,
                   lutron_light, conv>>

\* A call of async_check_device_identifiers
CheckDeviceIdentifiers(uuid, legacy_uuid, controller_guid) ==
    /\ device_registry' = async_check_device_identifiers(device_registry,
            uuid, legacy_uuid, controller_guid)
    /\ error' = FALSE
    /\ calls' = <<[fn |-> "device", platform |-> None, uuid |-> uuid,
                   legacy_uuid |-> legacy_uuid, guid |-> controller_guid]>>
    /\ pre_entity' = entity_registry
    /\ pre_device' = device_registry
    /\ UNCHANGED <<areas, sysvars, entity_registry, entry_data, pc, created,
                   lookups, subscribers, added, cycles, fired,
                   lutron_light, conv>>

NextMigrate ==
    \E legacy_uuid \in MigrateObjects, controller_guid \in Guids :
    \E uuid \in {"", PotentialUuid(legacy_uuid)} :
       \/ \E platform \in MigratePlatforms :
             CheckEntityUniqueId(platform, uuid, legacy_uuid, controller_guid)
       \/ CheckDeviceIdentifiers(uuid, legacy_uuid, controller_guid)

SpecMigrate == InitMigrate /\ [][NextMigrate]_vars


(* Properties of the migration functions *)

LastCall == calls[1]

\* The registry entry an entry of the registry before the call has become
EntityNow(e) == {n \in entity_registry : n.entity_id = e.entity_id}
DeviceNow(d) == {n \in device_registry : n.id = d.id}

\* C2: identifier migration is idempotent: a second call with the arguments
\* of the call just made leaves the registry as that call left it; after a
\* call that re-keyed an entry the second call raises nothing, because its
\* look-up under the legacy key finds nothing.
C2_Idempotent ==
    calls # <<>> =>
        LET c == LastCall
            old_key == UniqueId(c.guid, c.legacy_uuid)
        IN  IF c.fn = "entity"
            THEN LET again == async_check_entity_unique_id(entity_registry,
                                c.platform, c.uuid, c.legacy_uuid, c.guid)
                 IN  /\ again.registry = entity_registry
                     /\ entity_registry # pre_entity =>
                          /\ ~again.raised
                          /\ async_get_entity_id(entity_registry, c.platform,
                                LUTRON_DOMAIN, old_key) = None
            ELSE /\ async_check_device_identifiers(device_registry, c.uuid,
                        c.legacy_uuid, c.guid) = device_registry
                 /\ device_registry # pre_device =>
                        async_get_device(device_registry,
                            {<<LUTRON_DOMAIN, old_key>>}) = None

\* C2 witness: the last call re-keyed an entity entry
C2_Witness ==
    /\ calls # <<>>
    /\ LastCall.fn = "entity"
    /\ entity_registry # pre_entity
    /\ \E e \in entity_registry :
          e.unique_id = UniqueId(LastCall.guid, LastCall.uuid)

\* C3: a call with an empty uuid, or with no entry under the legacy key, raises
\* nothing and leaves both registries as they were; a call that finds an
\* entry changes nothing but the key of that entry: the registries keep their
\* entries, and every entry keeps its other attributes.
C3_Frame ==
    calls # <<>> =>
        LET c == LastCall
            old_key == UniqueId(c.guid, c.legacy_uuid)
            new_key == UniqueId(c.guid, c.uuid)
            found == {e \in pre_entity : /\ e.domain = c.platform
                                         /\ e.platform = LUTRON_DOMAIN
                                         /\ e.unique_id = old_key}
            found_device == {d \in pre_device :
                                <<LUTRON_DOMAIN, old_key>> \in d.identifiers}
        IN  IF c.fn = "entity"
            THEN /\ device_registry = pre_device
                 /\ (c.uuid = "" \/ found = {}) =>
                        (entity_registry = pre_entity /\ ~error)
                 /\ Cardinality(entity_registry) = Cardinality(pre_entity)
                 /\ \A e \in pre_entity :
                       /\ EntityNow(e) \subseteq
                            {e, [e EXCEPT !.unique_id = new_key]}
                       /\ EntityNow(e) # {}
                       /\ e \notin found => EntityNow(e) = {e}
                 /\ (c.uuid # "" /\ ~error) =>
                       \A e \in found :
                          EntityNow(e) = {[e EXCEPT !.unique_id = new_key]}
            ELSE /\ entity_registry = pre_entity
                 /\ ~error
                 /\ (c.uuid = "" \/ found_device = {}) =>
                        device_registry = pre_device
                 /\ Cardinality(device_registry) = Cardinality(pre_device)
                 /\ \A d \in pre_device :
                       /\ DeviceNow(d) \subseteq
                            {d, [d EXCEPT !.identifiers =
                                    {<<LUTRON_DOMAIN, new_key>>}]}
                       /\ DeviceNow(d) # {}
                       /\ d \notin found_device => DeviceNow(d) = {d}
                 /\ c.uuid # "" =>
                       \A d \in found_device :
                          DeviceNow(d) = {[d EXCEPT !.identifiers =
                                            {<<LUTRON_DOMAIN, new_key>>}]}

\* C3 witness: a disabled entry was found and re-keyed, still disabled
C3_Witness ==
    /\ calls # <<>>
    /\ LastCall.fn = "entity"
    /\ \E e \in pre_entity :
          /\ e.disabled
          /\ e.unique_id = UniqueId(LastCall.guid, LastCall.legacy_uuid)
          /\ e \notin entity_registry
          /\ [e EXCEPT !.unique_id = UniqueId(LastCall.guid, LastCall.uuid)]
                \in entity_registry


(* Properties of the classification *)

\* The iterations of one kind that have run to their end
ProcessedWork(kind) ==
    LET w == Work
    IN  {w[j] : j \in {h \in 1..Len(w) : h < pc.at /\ w[h].kind = kind}}

ProcessedOutputs ==
    {areas[x.a].outputs[x.i] : x \in ProcessedWork("output")}

\* The processed buttons, each with its keypad
ProcessedButtons ==
    {[keypad |-> areas[x.a].keypads[x.k],
      button |-> areas[x.a].keypads[x.k].buttons[x.i]] :
        x \in ProcessedWork("button")}

\* How often a device is in a bucket
Count(bucket, device) ==
    Cardinality({j \in 1..Len(bucket) : bucket[j].device = device})

CountButton(bucket, keypad, button) ==
    Cardinality({j \in 1..Len(bucket) :
        bucket[j].button = button /\ bucket[j].keypad = keypad.name})

\* C6: every ceiling fan that has been classified is once in the fan bucket
\* and once in the light bucket, and in neither the cover nor the switch
\* bucket.
C6_FanInFanAndLight ==
    \A o \in ProcessedOutputs :
        o.type = "CEILING_FAN_TYPE" =>
            /\ Count(entry_data.fans, o) = 1
            /\ Count(entry_data.lights, o) = 1
            /\ Count(entry_data.covers, o) = 0
            /\ Count(entry_data.switches, o) = 0

\* C6 witness: the pass is over and the topology has a ceiling fan
C6_Witness ==
    /\ pc.phase = "platforms"
    /\ \E o \in ProcessedOutputs : o.type = "CEILING_FAN_TYPE"

\* C7: every shade and every motor that has been classified is once in the
\* cover bucket and in no other bucket, whatever its is_light flag.
C7_ShadeOnlyCover ==
    \A o \in ProcessedOutputs :
        o.type \in {"SYSTEM_SHADE", "MOTOR"} =>
            /\ Count(entry_data.covers, o) = 1
            /\ Count(entry_data.fans, o) = 0
            /\ Count(entry_data.lights, o) = 0
            /\ Count(entry_data.switches, o) = 0

\* C7 witness: the pass is over and a motor with the is_light flag set and a
\* shade have been classified
C7_Witness ==
    /\ pc.phase = "platforms"
    /\ \E o \in ProcessedOutputs : o.type = "MOTOR" /\ o.is_light
    /\ \E o \in ProcessedOutputs : o.type = "SYSTEM_SHADE"

\* C8: an output whose type is neither shade, motor nor ceiling fan is in
\* exactly one bucket, the light bucket when its is_light flag is set and the
\* switch bucket otherwise; every classified output is in some bucket, and no
\* type makes the pass fail.
C8_DefaultSwitch ==
    /\ pc.phase # "failed"
    /\ \A o \in ProcessedOutputs :
        /\ o.type \notin {"SYSTEM_SHADE", "MOTOR", "CEILING_FAN_TYPE"} =>
            /\ Count(entry_data.lights, o) = (IF o.is_light THEN 1 ELSE 0)
            /\ Count(entry_data.switches, o) = (IF o.is_light THEN 0 ELSE 1)
            /\ Count(entry_data.covers, o) = 0
            /\ Count(entry_data.fans, o) = 0
        /\ Count(entry_data.lights, o) + Count(entry_data.switches, o)
           + Count(entry_data.covers, o) + Count(entry_data.fans, o) >= 1

\* C8 witness: the pass is over and an output of an unknown type without the
\* is_light flag is in the switch bucket
C8_Witness ==
    /\ pc.phase = "platforms"
    /\ \E o \in ProcessedOutputs :
          /\ o.type = "BOGUS" /\ ~o.is_light
          /\ Count(entry_data.switches, o) = 1

\* C9: a classified button is in the scene bucket, once, exactly when its
\* name is not "Unknown Button" and its type is one of the eight scene types;
\* a button named "Unknown Button" is never in the scene bucket.
C9_SceneBucket ==
    \A b \in ProcessedButtons :
        LET n == CountButton(entry_data.scenes, b.keypad, b.button)
            eligible ==
                /\ b.button.name # "Unknown Button"
                /\ b.button.button_type \in
                     {"SingleAction", "Toggle", "SingleSceneRaiseLower",
                      "MasterRaiseLower", "DualAction", "AdvancedToggle",
                      "AdvancedConditional", "SimpleConditional"}
        IN  /\ n = (IF eligible THEN 1 ELSE 0)
            /\ b.button.name = "Unknown Button" => n = 0

\* C9 witness: the pass is over, a button named "Unknown Button" of a scene
\* type is not a scene and another button is
C9_Witness ==
    /\ pc.phase = "platforms"
    /\ \E b \in ProcessedButtons :
          /\ b.button.name = "Unknown Button"
          /\ b.button.button_type = "DualAction"
          /\ CountButton(entry_data.scenes, b.keypad, b.button) = 0
    /\ \E b \in ProcessedButtons :
          CountButton(entry_data.scenes, b.keypad, b.button) = 1

\* C10: every classified button with a non-empty button type is once in the
\* raw-buttons bucket, scene or not; a button named "Unknown Button" is in
\* the raw-buttons bucket only, and its LED is not in the LED bucket.
C10_RawButtons ==
    \A b \in ProcessedButtons :
        /\ (b.button.button_type # None /\ b.button.button_type # "") =>
              CountButton(entry_data.buttons, b.keypad, b.button) = 1
        /\ b.button.name = "Unknown Button" =>
              /\ CountButton(entry_data.scenes, b.keypad, b.button) = 0
              /\ \A j \in 1..Len(entry_data.leds) :
                    ~ (/\ entry_data.leds[j].keypad = b.keypad.name
                       /\ entry_data.leds[j].led.number = b.button.number)

\* C10 witness: the pass is over; a button named "Unknown Button" of type
\* "SingleAction" with LED logic 5 and an LED in its slot is a raw button,
\* and a scene button is a raw button too
C10_Witness ==
    /\ pc.phase = "platforms"
    /\ \E b \in ProcessedButtons :
          /\ b.button.name = "Unknown Button"
          /\ b.button.button_type = "SingleAction"
          /\ b.button.led_logic = 5
          /\ \E j \in 1..Len(b.keypad.leds) :
                b.keypad.leds[j].number = b.button.number
          /\ CountButton(entry_data.buttons, b.keypad, b.button) = 1
    /\ \E b \in ProcessedButtons :
          /\ CountButton(entry_data.scenes, b.keypad, b.button) = 1
          /\ CountButton(entry_data.buttons, b.keypad, b.button) = 1

\* The LEDs of a keypad, as a set
LedsOf(keypad) == {keypad.leds[j] : j \in 1..Len(keypad.leds)}

\* The keypad of the topology with the given name
KeypadNamed(name) == CHOOSE k \in AllKeypads(areas) : k.name = name

\* A button that qualifies as a scene
SceneEligible(button) ==
    /\ button.name # "Unknown Button"
    /\ button.button_type \in
         {"SingleAction", "Toggle", "SingleSceneRaiseLower",
          "MasterRaiseLower", "DualAction", "AdvancedToggle",
          "AdvancedConditional", "SimpleConditional"}

\* An LED of a keypad is in the LED bucket
InLedBucket(keypad, led) ==
    \E j \in 1..Len(entry_data.leds) :
        entry_data.leds[j].keypad = keypad.name /\ entry_data.leds[j].led = led

\* C11: every entry of the LED bucket is an LED of the keypad it is filed
\* under, and that keypad has a scene-eligible button of the same slot number
\* whose LED logic is 5; the LED in the slot of a classified scene-eligible
\* button with LED logic 5 is in the bucket; a scene holds the LED of its own
\* keypad in its slot, and None when its keypad has no LED in that slot.
C11_LedBucket ==
    /\ \A j \in 1..Len(entry_data.leds) :
          LET e == entry_data.leds[j]
              keypad == KeypadNamed(e.keypad)
          IN  /\ e.led \in LedsOf(keypad)
              /\ \E i \in 1..Len(keypad.buttons) :
                    /\ SceneEligible(keypad.buttons[i])
                    /\ keypad.buttons[i].number = e.led.number
                    /\ keypad.buttons[i].led_logic = 5
    /\ \A b \in ProcessedButtons :
          (SceneEligible(b.button) /\ b.button.led_logic = 5) =>
              \A led \in LedsOf(b.keypad) :
                  led.number = b.button.number => InLedBucket(b.keypad, led)
    /\ \A j \in 1..Len(entry_data.scenes) :
          LET s == entry_data.scenes[j]
              own == {led \in LedsOf(KeypadNamed(s.keypad)) :
                         led.number = s.button.number}
          IN  IF own = {} THEN s.led = NoObject ELSE s.led \in own

\* C11 witness: the pass is over; the first keypad has LEDs in slots 1 and 2
\* and a scene button with LED logic 5 in slot 1 only, so that LED 1 is in
\* the bucket and LED 2 is not; the scene of the second keypad, in slot 2,
\* has no LED, and the LED of the second keypad is not in the bucket
C11_Witness ==
    /\ pc.phase = "platforms"
    /\ LET K1 == KeypadNamed("K1")
           K2 == KeypadNamed("K2")
       IN  /\ {led.number : led \in LedsOf(K1)} = {1, 2}
           /\ \A led \in LedsOf(K1) : InLedBucket(K1, led) <=> led.number = 1
           /\ \A led \in LedsOf(K2) : ~InLedBucket(K2, led)
           /\ \E j \in 1..Len(entry_data.scenes) :
                 /\ entry_data.scenes[j].keypad = "K2"
                 /\ entry_data.scenes[j].button.number = 2
                 /\ entry_data.scenes[j].led = NoObject
           /\ Len(entry_data.leds) = 1

\* The areas whose occupancy group the pass has dealt with
ProcessedAreas == {areas[x.a] : x \in ProcessedWork("occupancy")}

\* How often an area has an entry in the binary-sensor bucket
CountArea(area) ==
    Cardinality({j \in 1..Len(entry_data.binary_sensors) :
        entry_data.binary_sensors[j].area_name = area.name})

\* The migration calls made for an object
CallsFor(object) ==
    {j \in 1..Len(calls) : calls[j].legacy_uuid = object.legacy_uuid}

\* C12: an area whose occupancy group has been dealt with has one entry in
\* the binary-sensor bucket, holding its group, when the group exists and
\* its id is not 0, and no entry otherwise; no migration call is made for a
\* group with id 0, and the registry entries of such a group stay as they
\* were.
C12_OccupancyBucket ==
    /\ \A area \in ProcessedAreas :
          LET group == area.occupancy_group
          IN  IF group # NoObject /\ group.id # 0
              THEN /\ CountArea(area) = 1
                   /\ \E j \in 1..Len(entry_data.binary_sensors) :
                         entry_data.binary_sensors[j] =
                             [area_name |-> area.name, device |-> group]
              ELSE CountArea(area) = 0
    /\ \A j \in 1..Len(entry_data.binary_sensors) :
          /\ entry_data.binary_sensors[j].device # NoObject
          /\ entry_data.binary_sensors[j].device.id # 0
    /\ \A group \in AllOccupancyGroups(areas) :
          group.id = 0 =>
              /\ CallsFor(group) = {}
              /\ \A e \in pre_entity :
                    e.unique_id = UniqueId(Guid, group.legacy_uuid) =>
                        e \in entity_registry
              /\ \A d \in pre_device :
                    d.identifiers = {<<LUTRON_DOMAIN,
                                       UniqueId(Guid, group.legacy_uuid)>>} =>
                        d \in device_registry

\* C12 witness: the pass is over; the first area has a group with id 0 and a
\* uuid, registered under its legacy key before the pass, and the second
\* area has a group with id 1 that is in the bucket
C12_Witness ==
    /\ pc.phase = "platforms"
    /\ areas[1].occupancy_group # NoObject
    /\ areas[1].occupancy_group.id = 0
    /\ areas[1].occupancy_group.uuid # ""
    /\ \E e \in pre_entity :
          /\ e.domain = "binary_sensor"
          /\ e.unique_id = UniqueId(Guid, areas[1].occupancy_group.legacy_uuid)
    /\ areas[2].occupancy_group # NoObject
    /\ areas[2].occupancy_group.id = 1
    /\ CountArea(areas[2]) = 1
    /\ CountArea(areas[1]) = 0

\* The light entries of the registry under the key the light platform looks
\* a device up with
LightEntries(registry, device) ==
    {e \in registry : /\ e.domain = "light"
                      /\ e.platform = LUTRON_DOMAIN
                      /\ e.unique_id = UniqueId(Guid, device.uuid)}

\* The light entities a list of entities has for a device
LightsOf(entities, device) ==
    {j \in 1..Len(entities) :
        entities[j].class = "LutronLight" /\ entities[j].device = device}

\* The light bucket, as a set of devices
LightBucket == {entry_data.lights[j].device : j \in 1..Len(entry_data.lights)}

\* The step in which the light platform is set up
LightStep == "light" \in pc.todo /\ "light" \notin pc.todo'

\* C14: when the light platform is set up, a ceiling fan of the light bucket
\* gets one light entity if the registry holds an enabled light entry under
\* '{guid}_{uuid}' and none otherwise; a disabled entry under that key is
\* removed; every other device of the bucket gets exactly one light entity;
\* nothing else in the registry changes.
C14_FanLight ==
    [][LightStep =>
        /\ \A device \in LightBucket :
              LET hit == LightEntries(entity_registry, device)
                  n == Cardinality(LightsOf(created'.light, device))
              IN  IF device.type = "CEILING_FAN_TYPE"
                  THEN n = (IF \E e \in hit : ~e.disabled THEN 1 ELSE 0)
                  ELSE n = Count(entry_data.lights, device)
        /\ \A device \in LightBucket :
              device.type # "CEILING_FAN_TYPE" =>
                  Count(entry_data.lights, device) = 1
        /\ entity_registry' = entity_registry \
              UNION {{e \in LightEntries(entity_registry, device) : e.disabled}
                     : device \in {d \in LightBucket :
                                     d.type = "CEILING_FAN_TYPE"}}
    ]_vars

\* C14 witness: the light platform has been set up for a ceiling fan whose
\* light entry was disabled: the entry is gone and there is no light entity
\* for the fan
C14_Witness ==
    /\ pc.phase = "platforms" /\ "light" \notin pc.todo
    /\ \E device \in LightBucket :
          /\ device.type = "CEILING_FAN_TYPE"
          /\ \E e \in LightEntries(pre_entity, device) : e.disabled
          /\ LightEntries(entity_registry, device) = {}
          /\ LightsOf(created.light, device) = {}
          /\ \E j \in 1..Len(lookups) : lookups[j].result # None


(* Properties of the setup pass *)

\* The objects the pass hands to the migration
MigratedObjects ==
    AllOutputs(areas) \cup AllButtons(areas) \cup AllLeds(areas)
    \cup AllOccupancyGroups(areas)

PassCompleted == pc.phase = "platforms"

\* C1: when the pass has completed, every entity entry and every device entry
\* of the integration that was under the legacy key of an object with a uuid
\* before the pass is under the uuid key of that object, in every domain.
C1_AllRekeyed ==
    PassCompleted =>
        \A o \in MigratedObjects :
            o.uuid # "" =>
                /\ \A e \in pre_entity :
                      (/\ e.platform = LUTRON_DOMAIN
                       /\ e.unique_id = UniqueId(Guid, o.legacy_uuid)
                       /\ EntityNow(e) # {}) =>
                          \A n \in EntityNow(e) :
                              n.unique_id = UniqueId(Guid, o.uuid)
                /\ \A d \in pre_device :
                      <<LUTRON_DOMAIN, UniqueId(Guid, o.legacy_uuid)>>
                            \in d.identifiers =>
                          \A n \in DeviceNow(d) :
                              n.identifiers =
                                {<<LUTRON_DOMAIN, UniqueId(Guid, o.uuid)>>}

\* The migration calls the loops of the pass make for a topology
CallsOfOutput(o) ==
    {EntityCall(OutputPlatform(o), o.uuid, o.legacy_uuid),
     DeviceCall(o.uuid, o.legacy_uuid)}

CallsOfKeypad(kp) ==
    UNION {{EntityCall("scene", kp.buttons[i].uuid, kp.buttons[i].legacy_uuid)}
           \cup {EntityCall("switch", kp.leds[j].uuid, kp.leds[j].legacy_uuid) :
                    j \in {h \in 1..Len(kp.leds) :
                             kp.leds[h].number = kp.buttons[i].number}}
           : i \in {h \in 1..Len(kp.buttons) :
                      /\ kp.buttons[h].name # "Unknown Button"
                      /\ kp.buttons[h].button_type \in SceneButtonTypes}}

AllMigrationCalls ==
    UNION {CallsOfOutput(o) : o \in AllOutputs(areas)}
    \cup UNION {CallsOfKeypad(kp) : kp \in AllKeypads(areas)}
    \cup UNION {{EntityCall("binary_sensor", g.uuid, g.legacy_uuid),
                 DeviceCall(g.uuid, g.legacy_uuid)}
                : g \in {h \in AllOccupancyGroups(areas) : h.id # 0}}
    \cup UNION {{EntityCall("sensor", "", sysvars[i].legacy_uuid),
                 DeviceCall("", sysvars[i].legacy_uuid)}
                : i \in 1..Len(sysvars)}

CallsMade == {calls[j] : j \in 1..Len(calls)}

\* C4: an entity is instantiated, and a registry look-up of a platform is
\* made, only after every migration call of the pass: the calls for every
\* output, scene button, LED, occupancy group and variable have been made by
\* then and none is made afterwards.
C4_MigrationBeforeEntities ==
    (created # NoEntities \/ lookups # <<>> \/ pc.phase = "platforms") =>
        /\ AllMigrationCalls \subseteq CallsMade
        /\ \A p \in SetupPlatforms : \A j \in 1..Len(created[p]) :
              created[p][j].ncalls = Len(calls)
        /\ \A j \in 1..Len(lookups) : lookups[j].ncalls = Len(calls)

\* C4 witness: the light platform has looked up a ceiling fan under its uuid
\* key after the pass re-keyed an entry, and entities exist
C4_Witness ==
    /\ pc.phase = "platforms"
    /\ created.light # <<>>
    /\ \E j \in 1..Len(lookups) :
          /\ lookups[j].domain = "light"
          /\ \E o \in AllOutputs(areas) :
                /\ o.uuid # ""
                /\ lookups[j].unique_id = UniqueId(Guid, o.uuid)
    /\ \E e \in pre_entity : e \notin entity_registry /\ EntityNow(e) # {}


(* The event entity: event.py *)

MaxCycles == 2     \* times the host adds one entity to hass

\* ev_map of handle_event followed by LEGACY_EVENT_TYPES; None for an event
\* that is not in ev_map
LegacyAction(event) ==
    CASE event = "PRESS" -> "press"
      [] event = "RELEASE" -> "release"
      [] event = "HOLD" -> "hold"
      [] event = "DOUBLE_TAP" -> "double_tap"
      [] event = "HOLD_RELEASE" -> "hold_release"
      [] OTHER -> None

ButtonEvents ==
    {"PRESS", "RELEASE", "HOLD", "DOUBLE_TAP", "HOLD_RELEASE", "UNKNOWN"}

\* (self.handle_event, None)
Subscription(j) == [handler |-> j, context |-> None]

\* list.remove: the list without the first occurrence of x
RemoveFirst(list, x) ==
    LET hits == {i \in 1..Len(list) : list[i] = x}
        first == CHOOSE i \in hits : \A h \in hits : i <= h
    IN  [i \in 1..(Len(list) - 1) |->
            IF i < first THEN list[i] ELSE list[i + 1]]

\* The button of the j-th event entity
ButtonOf(j) == created.event[j].device.legacy_uuid

\* The event entities of two buttons, not yet added to hass
InitEvent ==
    /\ NoPass
    /\ entity_registry = {}
    /\ device_registry = {}
    /\ pre_entity = {}
    /\ pre_device = {}
    /\ calls = <<>>
    /\ error = FALSE
    /\ \E withUuid \in BOOLEAN :
          created = [NoEntities EXCEPT !.event =
                     <<[platform |-> "event", class |-> "LutronEventEntity",
                        device |-> FirstKeypad(withUuid).buttons[1],
                        ncalls |-> 0],
                       [platform |-> "event", class |-> "LutronEventEntity",
                        device |-> SecondKeypad(withUuid).buttons[1],
                        ncalls |-> 0]>>]
    /\ subscribers = [b \in {ButtonOf(j) : j \in 1..Len(created.event)} |-> <<>>]
    /\ added = {}
    /\ cycles = [j \in 1..Len(created.event) |-> 0]
    /\ fired = <<>>
    /\ lutron_light = NoLight
    /\ conv = NoConversion

\* Variant: the handler is not removed when the entity is removed
async_will_remove_from_hass_keeping(j) ==
    /\ j \in added
    /\ added' = added \ {j}
    /\ UNCHANGED <<areas, sysvars, entity_registry, device_registry,
                   entry_data, pc, calls, pre_entity, pre_device, error,
                   created, lookups, subscribers, cycles, fired,
                   lutron_light, conv>>

\* LutronEventEntity.async_added_to_hass, called by the host when it adds
\* the entity
async_added_to_hass(j) ==
    /\ j \notin added
    /\ cycles[j] < MaxCycles
    /\ subscribers' = [subscribers EXCEPT
                         ![ButtonOf(j)] = Append(@, Subscription(j))]
    /\ added' = added \cup {j}
    /\ cycles' = [cycles EXCEPT ![j] = @ + 1]
    /\ UNCHANGED <<areas, sysvars, entity_registry, device_registry,
                   entry_data, pc, calls, pre_entity, pre_device, error,
                   created, lookups, fired,
                   lutron_light, conv>>

\* LutronEventEntity.async_will_remove_from_hass, called by the host when it
\* removes the entity; list.remove raises when the handler is not in the list
async_will_remove_from_hass(j) ==
    /\ j \in added
    /\ added' = added \ {j}
    /\ IF \E i \in 1..Len(subscribers[ButtonOf(j)]) :
             subscribers[ButtonOf(j)][i] = Subscription(j)
       THEN /\ subscribers' = [subscribers EXCEPT ![ButtonOf(j)] =
                                 RemoveFirst(@, Subscription(j))]
            /\ error' = error
       ELSE /\ subscribers' = subscribers
            /\ error' = TRUE
    /\ UNCHANGED <<areas, sysvars, entity_registry, device_registry,
                   entry_data, pc, calls, pre_entity, pre_device, created,
                   lookups, cycles, fired,
                   lutron_light, conv>>

\* The data handle_event fires on the bus for one subscriber
handle_event(j, button, event) ==
    IF LegacyAction(event) # None
    THEN <<[entity |-> j, action |-> LegacyAction(event),
            uuid |-> created.event[j].device.uuid, is_added |-> j \in added]>>
    ELSE <<>>

\* The library reports an event of a button to the subscribers of the
\* button; fired holds what the handlers fired for the last event
ButtonEvent(button, event) ==
    /\ fired' = Concat([i \in 1..Len(subscribers[button]) |->
                    handle_event(subscribers[button][i].handler, button, event)])
    /\ UNCHANGED <<areas, sysvars, entity_registry, device_registry,
                   entry_data, pc, calls, pre_entity, pre_device, error,
                   created, lookups, subscribers, added, cycles,
                   lutron_light, conv>>

NextEvent ==
    \/ \E j \in 1..Len(created.event) : async_added_to_hass(j)
    \/ \E j \in 1..Len(created.event) : async_will_remove_from_hass(j)
    \/ \E button \in DOMAIN subscribers, event \in ButtonEvents :
          ButtonEvent(button, event)

SpecEvent == InitEvent /\ [][NextEvent]_vars

\* How often the handler of the j-th entity is subscribed on a button
Subscribed(j, button) ==
    Cardinality({i \in 1..Len(subscribers[button]) :
                    subscribers[button][i].handler = j})

\* C5: the handler of an event entity is subscribed once on its button while
\* the entity is added to hass and not at all while it is not, and on no
\* other button; no removal fails, and handle_event runs for added entities
\* only.
C5_SubscribedWhileAdded ==
    /\ ~error
    /\ \A j \in 1..Len(created.event), button \in DOMAIN subscribers :
          Subscribed(j, button) =
              (IF j \in added /\ button = ButtonOf(j) THEN 1 ELSE 0)
    /\ \A i \in 1..Len(fired) : fired[i].is_added

\* C5 witness: an entity has been added, removed and added again, another
\* has been added and removed, and an event of the first has been fired
C5_Witness ==
    /\ \E j \in added : cycles[j] = 2
    /\ \E j \in 1..Len(created.event) : j \notin added /\ cycles[j] >= 1
    /\ fired # <<>>

(* Python floats: IEEE 754 binary64, rounded to nearest, ties to even *)

\* sys.float_info.mant_dig
MantDig == 53

\* A float that is not negative is 0.0, which has no bits, or the number
\* bits * 2^exp, where bits are MantDig binary digits, the most significant
\* first and equal to 1.
Zero == [bits |-> <<>>, exp |-> 0]

\* The binary digits of a natural number, most significant first
RECURSIVE ToBits(_)
ToBits(n) == IF n = 0 THEN <<>> ELSE Append(ToBits(n \div 2), n % 2)

RECURSIVE FromBits(_)
FromBits(bits) ==
    IF bits = <<>> THEN 0
    ELSE 2 * FromBits(SubSeq(bits, 1, Len(bits) - 1)) + bits[Len(bits)]

RECURSIVE StripZeros(_)
StripZeros(bits) ==
    IF bits # <<>> /\ Head(bits) = 0 THEN StripZeros(Tail(bits)) ELSE bits

RECURSIVE Zeros(_)
Zeros(n) == IF n <= 0 THEN <<>> ELSE Append(Zeros(n - 1), 0)

\* bits + 1, one digit longer when every digit is 1
RECURSIVE Increment(_)
Increment(bits) ==
    IF bits = <<>> THEN <<1>>
    ELSE IF bits[Len(bits)] = 0
    THEN Append(SubSeq(bits, 1, Len(bits) - 1), 1)
    ELSE Append(Increment(SubSeq(bits, 1, Len(bits) - 1)), 0)

\* The float nearest to bits * 2^exp, where bits has no leading zero and
\* sticky tells that digits other than 0 follow the ones given
Round(bits, exp, sticky) ==
    LET n == Len(bits)
    IN  IF n = 0 THEN Zero
        ELSE IF n <= MantDig
        THEN [bits |-> bits \o Zeros(MantDig - n), exp |-> exp - (MantDig - n)]
        ELSE LET kept == SubSeq(bits, 1, MantDig)
                 guard == bits[MantDig + 1]
                 rest == sticky \/ \E j \in (MantDig + 2)..n : bits[j] = 1
                 up == guard = 1 /\ (rest \/ kept[MantDig] = 1)
                 m == IF up THEN Increment(kept) ELSE kept
             IN  [bits |-> SubSeq(m, 1, MantDig),
                  exp |-> exp + (n - MantDig) + (Len(m) - MantDig)]

\* float(n) of an int that needs no rounding
float_of(n) == Round(ToBits(n), 0, FALSE)

\* bits * n + carry in binary digits
RECURSIVE MulBits(_, _, _)
MulBits(bits, n, carry) ==
    IF bits = <<>> THEN ToBits(carry)
    ELSE LET t == bits[Len(bits)] * n + carry
             front == SubSeq(bits, 1, Len(bits) - 1)
         IN  IF t % 2 = 0
             THEN Append(MulBits(front, n, t \div 2), 0)
             ELSE Append(MulBits(front, n, t \div 2), 1)

\* Long division by d: the digits of num first, then as many more as give
\* the quotient a digit more than a float holds, unless the division ends;
\* q holds the digits of the quotient from its first 1 on
RECURSIVE LongDiv(_, _, _, _, _)
LongDiv(num, d, rem, q, exp) ==
    IF (Len(q) > MantDig \/ rem = 0) /\ num = <<>>
    THEN [bits |-> q, exp |-> exp, sticky |-> rem # 0]
    ELSE LET t == 2 * rem + (IF num = <<>> THEN 0 ELSE Head(num))
             digits == IF q = <<>> /\ t < d THEN q ELSE Append(q, t \div d)
         IN  IF num = <<>>
             THEN LongDiv(num, d, t % d, digits, exp - 1)
             ELSE LongDiv(Tail(num), d, t % d, digits, exp)

\* float * int
float_mul(f, n) == Round(StripZeros(MulBits(f.bits, n, 0)), f.exp, FALSE)

\* float / int
float_div(f, n) ==
    LET r == LongDiv(f.bits, n, 0, <<>>, f.exp)
    IN  Round(r.bits, r.exp, r.sticky)

\* int / int, Python's true division
int_true_divide(a, b) ==
    LET r == LongDiv(ToBits(a), b, 0, <<>>, 0)
    IN  Round(r.bits, r.exp, r.sticky)

\* int(f): the digits before the binary point
int_of(f) ==
    IF f.bits = <<>> \/ f.exp <= 0 - MantDig THEN 0
    ELSE IF f.exp >= 0 THEN FromBits(f.bits \o Zeros(f.exp))
    ELSE FromBits(SubSeq(f.bits, 1, MantDig + f.exp))

\* f > 0
Positive(f) == f.bits # <<>>


(* The level conversions of the light platform *)

\* return float((level * 100) / 255), for an int level
to_lutron_level(level) == int_true_divide(level * 100, 255)

\* Variant: the quotient is rounded to the nearest integer
to_hass_level_rounding(level) ==
    LET f == float_div(float_mul(level, 255), 100)
    IN  IF f.bits = <<>> \/ f.exp < 0 - MantDig THEN 0
        ELSE IF f.exp >= 0 THEN int_of(f)
        ELSE int_of(f) + f.bits[MantDig + f.exp + 1]

\* return int((level * 255) / 100), for a float level
to_hass_level(level) == int_of(float_div(float_mul(level, 255), 100))

\* Home Assistant light levels and whole Lutron levels
HassLevels == 0..255
LutronLevels == 0..100

\* Outside the light platform nothing of the setup or the event entities
\* changes
NoSetup ==
    /\ NoPass
    /\ entity_registry = {}
    /\ device_registry = {}
    /\ pre_entity = {}
    /\ pre_device = {}
    /\ calls = <<>>
    /\ error = FALSE
    /\ created = NoEntities
    /\ subscribers = <<>>
    /\ added = {}
    /\ cycles = <<>>
    /\ fired = <<>>

\* A Home Assistant level to convert to Lutron and back, or a whole Lutron
\* level to convert to Home Assistant
InitLevels ==
    /\ NoSetup
    /\ lutron_light = NoLight
    /\ conv \in [start : {"hass"}, input : HassLevels, lutron : {NoObject},
                  hass : {<<>>}]
               \cup {[start |-> "lutron", input |-> l, lutron |-> float_of(l),
                      hass |-> <<>>] : l \in LutronLevels}

ToLutronLevel ==
    /\ conv.start = "hass" /\ conv.lutron = NoObject
    /\ conv' = [conv EXCEPT !.lutron = to_lutron_level(conv.input)]
    /\ UNCHANGED <<areas, sysvars, entity_registry, device_registry,
                   entry_data, pc, calls, pre_entity, pre_device, error,
                   created, lookups, subscribers, added, cycles, fired,
                   lutron_light>>

ToHassLevel ==
    /\ conv.lutron # NoObject /\ conv.hass = <<>>
    /\ conv' = [conv EXCEPT !.hass = <<to_hass_level(conv.lutron)>>]
    /\ UNCHANGED <<areas, sysvars, entity_registry, device_registry,
                   entry_data, pc, calls, pre_entity, pre_device, error,
                   created, lookups, subscribers, added, cycles, fired,
                   lutron_light>>

NextLevels == ToLutronLevel \/ ToHassLevel

SpecLevels == InitLevels /\ [][NextLevels]_vars

\* C13: a Home Assistant level x in 0..255 that is converted to Lutron and
\* back comes back as x - 1, x or x + 1; the Lutron level in between is
\* x * 100 / 255, whose whole part is that of the exact quotient; and
\* to_hass_level truncates: a whole Lutron level l gives the whole part of
\* l * 255 / 100, never the next integer.
C13_RoundTrip ==
    /\ (conv.start = "hass" /\ conv.lutron # NoObject) =>
          int_of(conv.lutron) = (conv.input * 100) \div 255
    /\ (conv.start = "hass" /\ conv.hass # <<>>) =>
          conv.hass[1] \in {conv.input - 1, conv.input, conv.input + 1}
    /\ (conv.start = "lutron" /\ conv.hass # <<>>) =>
          conv.hass[1] = (conv.input * 255) \div 100

\* C13 witness: 128 has gone to Lutron, as 50.196..., and come back
C13_Witness ==
    /\ conv.start = "hass"
    /\ conv.input = 128
    /\ conv.hass # <<>>
    /\ int_of(conv.lutron) = 50
    /\ conv.lutron # float_of(50)

\* The round trip is exact for every level
RoundTripExact ==
    (conv.start = "hass" /\ conv.hass # <<>>) => conv.hass[1] = conv.input

(* The light entity: LutronLight of light.py *)

\* Brightness arguments of the turn_on service and levels the output may be
\* set to from elsewhere: off, 0.2 %, half and full
BrightnessArgs == {0, 1, 128, 255}
ExternalLevels == {float_of(0), int_true_divide(1, 5), float_of(50), float_of(100)}

\* The keyword arguments of a service call; an absent argument is <<>>
TurnOnKwargs ==
    [flash : {None},
     brightness : {<<>>} \cup {<<b>> : b \in BrightnessArgs},
     transition : {<<>>, <<2>>}]
    \cup [flash : {"short", "long"}, brightness : {<<>>}, transition : {<<>>}]
TurnOffKwargs ==
    [flash : {None}, brightness : {<<>>}, transition : {<<>>, <<2>>}]

NoCall == [op |-> "init", kwargs |-> <<>>, before |-> <<>>, sent |-> <<>>]

\* A light entity after __init__, not yet added to hass: _prev_brightness is
\* None, and so are the state attributes
InitLight ==
    /\ NoSetup
    /\ conv = NoConversion
    /\ lutron_light \in
          [is_dimmable : BOOLEAN, is_fan : BOOLEAN, level : ExternalLevels,
           prev_brightness : {<<>>}, attr_brightness : {<<>>},
           attr_is_on : {<<>>}, added : {FALSE}, issues : {{}},
           last : {NoCall}]

\* LutronLight._update_attrs
UpdateAttrs(l) ==
    LET level == l.level
        hass_level == to_hass_level(level)
    IN  [l EXCEPT !.attr_is_on = <<Positive(level)>>,
                  !.attr_brightness = <<hass_level>>,
                  !.prev_brightness =
                      IF l.prev_brightness = <<>> \/ hass_level # 0
                      THEN <<hass_level>> ELSE @,
                  !.last = [op |-> "update_attrs", kwargs |-> <<>>,
                            before |-> l.prev_brightness, sent |-> <<>>]]

LightFrame ==
    UNCHANGED <<areas, sysvars, entity_registry, device_registry, entry_data,
                pc, calls, pre_entity, pre_device, error, created, lookups,
                subscribers, added, cycles, fired, conv>>

\* async_add_entities(lights, True): the state of the entity is updated
\* before it is added to hass and can be called
async_add_entities ==
    /\ ~lutron_light.added
    /\ lutron_light' = [UpdateAttrs(lutron_light) EXCEPT !.added = TRUE]
    /\ LightFrame

\* The output reports a level to the entity that has been added
update_attrs ==
    /\ lutron_light.added
    /\ lutron_light' = UpdateAttrs(lutron_light)
    /\ LightFrame

\* The level of the output is changed from elsewhere
DeviceLevel ==
    /\ \E level \in ExternalLevels \ {lutron_light.level} :
          lutron_light' = [lutron_light EXCEPT !.level = level]
    /\ LightFrame

\* Variant: the remembered brightness is restored even when it is 0
turn_on_brightness_restoring(kwargs, l) ==
    IF kwargs.brightness # <<>> /\ l.is_dimmable THEN kwargs.brightness
    ELSE l.prev_brightness

\* The brightness turn_on chooses (lines 159-164)
turn_on_brightness(kwargs, l) ==
    IF kwargs.brightness # <<>> /\ l.is_dimmable THEN kwargs.brightness
    ELSE IF l.prev_brightness = <<0>> THEN <<255>>
    ELSE l.prev_brightness

\* The arguments of set_level
SetLevel(new_level, kwargs) ==
    [fn |-> "set_level", new_level |-> new_level,
     fade_time_seconds |-> kwargs.transition]

\* LutronLight.turn_on; with a brightness of None, to_lutron_level raises
\* after _prev_brightness has been assigned and nothing is sent
turn_on(kwargs) ==
    /\ lutron_light.added
    /\ LET l == [lutron_light EXCEPT !.issues =
                    IF lutron_light.is_fan THEN @ \cup {"deprecated_light_fan_on"} ELSE @]
           brightness == turn_on_brightness(kwargs, l)
           call == [op |-> "turn_on", kwargs |-> kwargs,
                    before |-> l.prev_brightness, sent |-> <<>>]
       IN  lutron_light' =
             IF kwargs.flash # None
             THEN [l EXCEPT !.last = [call EXCEPT !.sent =
                     <<[fn |-> "flash",
                        duration |-> IF kwargs.flash = "short" THEN "0.5"
                                     ELSE "1.5"]>>]]
             ELSE IF brightness = <<>>
             THEN [l EXCEPT !.prev_brightness = brightness,
                            !.last = [call EXCEPT !.sent =
                                        <<[fn |-> "TypeError"]>>]]
             ELSE [l EXCEPT !.prev_brightness = brightness,
                            !.level = to_lutron_level(brightness[1]),
                            !.last = [call EXCEPT !.sent =
                               <<SetLevel(to_lutron_level(brightness[1]),
                                          kwargs)>>]]
    /\ LightFrame

\* LutronLight.turn_off
turn_off(kwargs) ==
    /\ lutron_light.added
    /\ lutron_light' =
          [lutron_light EXCEPT
             !.issues = IF lutron_light.is_fan
                        THEN @ \cup {"deprecated_light_fan_off"} ELSE @,
             !.level = float_of(0),
             !.last = [op |-> "turn_off", kwargs |-> kwargs,
                       before |-> lutron_light.prev_brightness,
                       sent |-> <<SetLevel(float_of(0), kwargs)>>]]
    /\ LightFrame

NextLight ==
    \/ async_add_entities
    \/ update_attrs
    \/ DeviceLevel
    \/ \E kwargs \in TurnOnKwargs : turn_on(kwargs)
    \/ \E kwargs \in TurnOffKwargs : turn_off(kwargs)

SpecLight == InitLight /\ [][NextLight]_vars

\* The last call was a turn_on without flash and without brightness
PlainTurnOn ==
    /\ lutron_light.last.op = "turn_on"
    /\ lutron_light.last.kwargs.flash = None
    /\ lutron_light.last.kwargs.brightness = <<>>

\* C15: a turn_on without flash and without brightness sends set_level with
\* a level above 0: the level of the remembered brightness when that is not
\* 0, and 100.0, the level of 255, when it is 0; _update_attrs overwrites the
\* remembered brightness only when it was unset or the reported level
\* converts to a brightness other than 0; turn_off leaves it as it was.
C15_TurnOnLevel ==
    LET last == lutron_light.last
    IN  /\ PlainTurnOn =>
              /\ last.before # <<>>
              /\ last.sent # <<>>
              /\ last.sent[1].fn = "set_level"
              /\ Positive(last.sent[1].new_level)
              /\ IF last.before = <<0>>
                 THEN /\ last.sent[1].new_level = to_lutron_level(255)
                      /\ last.sent[1].new_level = float_of(100)
                 ELSE /\ last.before[1] > 0
                      /\ last.sent[1].new_level =
                            to_lutron_level(last.before[1])
                      /\ lutron_light.prev_brightness = last.before
        /\ last.op = "update_attrs" =>
              lutron_light.prev_brightness =
                 (IF last.before = <<>> \/ lutron_light.attr_brightness # <<0>>
                  THEN lutron_light.attr_brightness ELSE last.before)
        /\ last.op = "turn_off" =>
              /\ lutron_light.prev_brightness = last.before
              /\ last.sent[1].new_level = float_of(0)

\* C15 witness: the light was reported off while the remembered brightness
\* was 0, and a turn_on without arguments has sent 100.0
C15_Witness ==
    /\ PlainTurnOn
    /\ lutron_light.last.before = <<0>>
    /\ lutron_light.attr_is_on = <<FALSE>>
    /\ lutron_light.last.sent[1].new_level = float_of(100)
    /\ lutron_light.prev_brightness = <<255>>

====
